---- MODULE Spec2Model ----
(***************************************************************************)
(* fcmd: common file manipulation commands for Go (src/fcmd.go).           *)
(*                                                                         *)
(* The state is the file system the library acts on (a tree of nodes), the *)
(* process's working directory, and the record of the last library call    *)
(* with its arguments and results.  Path strings are sequences of          *)
(* one-character strings, so that the lexical operations of the code       *)
(* (strings.HasPrefix, path.Join, path.Split) are computed, not assumed.   *)
(* The process runs as an unprivileged owner of every node, umask 022;     *)
(* there are no symbolic links.                                            *)
(***************************************************************************)
EXTENDS Integers, Sequences, FiniteSets, TLC

VARIABLES fs, cwd, last

vars == <<fs, cwd, last>>

\* Op applied to the value of v, computed once: a local variable of the code
\* that is assigned once and read several times.
Bind(v, Op(_)) == CHOOSE y \in {Op(x) : x \in {v}} : TRUE

\* ------------------------------------------------------------------------
\* Bounds of the model
\* ------------------------------------------------------------------------

\* Most nodes (the file-system root not counted) the tree may hold.
MaxNodes == 4

\* ------------------------------------------------------------------------
\* Strings
\* ------------------------------------------------------------------------

Slash == "/"
Dot == "."

\* Byte value order of the characters used ('.' < '/' < 'a' < 'b' < 'f').
Code(ch) ==
  CASE ch = "." -> 46
    [] ch = "/" -> 47
    [] ch = "a" -> 97
    [] ch = "b" -> 98
    [] ch = "f" -> 102
    [] OTHER -> 120

\* s < t in the byte-wise order of Go strings.
RECURSIVE StrLess(_, _)
StrLess(s, t) ==
  IF t = <<>> THEN FALSE
  ELSE IF s = <<>> THEN TRUE
  ELSE IF Head(s) # Head(t) THEN Code(Head(s)) < Code(Head(t))
  ELSE StrLess(Tail(s), Tail(t))

\* strings.HasPrefix(s, prefix)
HasPrefix(s, prefix) ==
  /\ Len(s) >= Len(prefix)
  /\ SubSeq(s, 1, Len(prefix)) = prefix

\* strings.LastIndex(s, "/"), 1-based; 0 when there is none.
LastSlash(s) ==
  IF \E i \in 1..Len(s) : s[i] = Slash
  THEN CHOOSE i \in 1..Len(s) : s[i] = Slash /\ \A j \in (i+1)..Len(s) : s[j] # Slash
  ELSE 0

\* The elements of s between slashes, empty ones included.
RECURSIVE SplitSlash(_)
SplitSlash(s) ==
  IF \A i \in 1..Len(s) : s[i] # Slash THEN <<s>>
  ELSE LET i == CHOOSE k \in 1..Len(s) : s[k] = Slash /\ \A j \in 1..(k-1) : s[j] # Slash
       IN <<SubSeq(s, 1, i-1)>> \o SplitSlash(SubSeq(s, i+1, Len(s)))

\* strings.Join(elems, "/")
RECURSIVE JoinSlash(_)
JoinSlash(elems) ==
  IF elems = <<>> THEN <<>>
  ELSE IF Len(elems) = 1 THEN elems[1]
  ELSE elems[1] \o <<Slash>> \o JoinSlash(Tail(elems))

DotDot == <<Dot, Dot>>

\* ------------------------------------------------------------------------
\* Package path (lexical only)
\* ------------------------------------------------------------------------

\* path.Clean: drops empty and "." elements, resolves inner ".." elements,
\* drops ".." at the start of a rooted path; "." for an empty result.
RECURSIVE CleanElems(_, _, _)
CleanElems(es, out, rooted) ==
  IF es = <<>> THEN out
  ELSE LET e == Head(es) IN
    IF e = <<>> \/ e = <<Dot>> THEN CleanElems(Tail(es), out, rooted)
    ELSE IF e = DotDot THEN
      IF out # <<>> /\ out[Len(out)] # DotDot
        THEN CleanElems(Tail(es), SubSeq(out, 1, Len(out) - 1), rooted)
      ELSE IF rooted THEN CleanElems(Tail(es), out, rooted)
      ELSE CleanElems(Tail(es), Append(out, e), rooted)
    ELSE CleanElems(Tail(es), Append(out, e), rooted)

Clean(p) ==
  LET rooted == Len(p) > 0 /\ p[1] = Slash
      body == JoinSlash(CleanElems(SplitSlash(p), <<>>, rooted))
  IN IF rooted THEN <<Slash>> \o body
     ELSE IF body = <<>> THEN <<Dot>>
     ELSE body

\* path.Join(elem...): the non-empty elements joined by slashes, cleaned;
\* "" when every element is empty.
Join(elem) ==
  LET nonEmpty == SelectSeq(elem, LAMBDA e : e # <<>>)
  IN IF nonEmpty = <<>> THEN <<>> ELSE Clean(JoinSlash(nonEmpty))

\* path.Split(p): (dir, file), split after the last slash.
Split(p) ==
  LET i == LastSlash(p)
  IN [dir |-> SubSeq(p, 1, i), file |-> SubSeq(p, i + 1, Len(p))]

\* ------------------------------------------------------------------------
\* The file system and the system calls the library forwards to
\* ------------------------------------------------------------------------

\* A node is named by the sequence of names leading to it from "/"; fs maps
\* every existing node to [kind, mode, data].

OK == "nil"
ENOENT == "ENOENT"
ENOTDIR == "ENOTDIR"
EACCES == "EACCES"
EEXIST == "EEXIST"
EISDIR == "EISDIR"
EINVAL == "EINVAL"

\* var DefaultPerm os.FileMode = 0750
DefaultPerm == 488

UserR(mode) == (mode \div 256) % 2 = 1
UserW(mode) == (mode \div 128) % 2 = 1
UserX(mode) == (mode \div 64) % 2 = 1

\* a &^ b on permission bits
RECURSIVE AndNot(_, _)
AndNot(a, b) ==
  IF a = 0 THEN 0
  ELSE (IF a % 2 = 1 /\ b % 2 = 0 THEN 1 ELSE 0) + 2 * AndNot(a \div 2, b \div 2)

\* The mode a created node gets from the requested one (umask 022).
Masked(perm) == AndNot(perm, 18)

Parent(n) == IF n = <<>> THEN <<>> ELSE SubSeq(n, 1, Len(n) - 1)

IsPrefix(a, b) == Len(a) <= Len(b) /\ SubSeq(b, 1, Len(a)) = a

Children(F, n) == {q \in DOMAIN F : Len(q) = Len(n) + 1 /\ IsPrefix(n, q)}

\* Path resolution from node cur over the remaining elements es: every
\* node passed through must be a searchable directory.
RECURSIVE Walk(_, _, _)
Walk(F, cur, es) ==
  IF es = <<>> THEN [err |-> OK, node |-> cur, rest |-> <<>>]
  ELSE IF F[cur].kind # "dir" THEN [err |-> ENOTDIR, node |-> cur, rest |-> es]
  ELSE IF ~UserX(F[cur].mode) THEN [err |-> EACCES, node |-> cur, rest |-> es]
  ELSE LET e == Head(es) IN
    IF e = <<Dot>> THEN Walk(F, cur, Tail(es))
    ELSE IF e = DotDot THEN Walk(F, Parent(cur), Tail(es))
    ELSE IF Append(cur, e) \notin DOMAIN F
      THEN [err |-> ENOENT, node |-> Append(cur, e), rest |-> Tail(es)]
    ELSE Walk(F, Append(cur, e), Tail(es))

\* Resolution of the path string p by the kernel, relative paths from the
\* working directory c.  With err = ENOENT and rest = <<>>, node is the
\* missing last element, whose parent was reached.
Lookup(F, c, p) ==
  IF p = <<>> THEN [err |-> ENOENT, node |-> <<>>, rest |-> <<<<>>>>]
  ELSE LET es == SelectSeq(SplitSlash(p), LAMBDA e : e # <<>>)
           r == Walk(F, IF p[1] = Slash THEN <<>> ELSE c, es)
       IN IF r.err = OK /\ p[Len(p)] = Slash /\ F[r.node].kind # "dir"
            THEN [err |-> ENOTDIR, node |-> r.node, rest |-> <<>>]
          ELSE r

\* os.Stat(p): the error, and whether the node is a directory.
Stat(F, c, p) ==
  LET r == Lookup(F, c, p)
  IN [err |-> r.err, isDir |-> r.err = OK /\ F[r.node].kind = "dir"]

\* os.IsNotExist(err)
IsNotExist(err) == err = ENOENT

\* The names in S sorted by byte order.
RECURSIVE SortNames(_)
SortNames(S) ==
  IF S = {} THEN <<>>
  ELSE LET m == CHOOSE x \in S : \A y \in S \ {x} : StrLess(x, y)
       IN <<m>> \o SortNames(S \ {m})

\* ioutil.ReadDir(p): the entries (Name, IsDir) of the directory sorted by
\* name, or an error.
ReadDir(F, c, p) ==
  LET r == Lookup(F, c, p) IN
  IF r.err # OK THEN [err |-> r.err, entries |-> <<>>]
  ELSE IF F[r.node].kind # "dir" THEN [err |-> ENOTDIR, entries |-> <<>>]
  ELSE IF ~UserR(F[r.node].mode) \/ (Children(F, r.node) # {} /\ ~UserX(F[r.node].mode))
    THEN [err |-> EACCES, entries |-> <<>>]
  ELSE LET names == SortNames({q[Len(q)] : q \in Children(F, r.node)})
       IN [err |-> OK,
           entries |-> [i \in 1..Len(names) |->
                          [Name |-> names[i],
                           IsDir |-> F[Append(r.node, names[i])].kind = "dir"]]]

\* F with node n set to v.
Put(F, n, v) == [q \in DOMAIN F \cup {n} |-> IF q = n THEN v ELSE F[q]]

\* os.Mkdir(p, perm)
Mkdir(F, c, p, perm) ==
  LET r == Lookup(F, c, p) IN
  IF r.err = OK THEN [fs |-> F, err |-> EEXIST]
  ELSE IF r.err = ENOENT /\ r.rest = <<>> THEN
    IF UserW(F[Parent(r.node)].mode)
      THEN [fs |-> Put(F, r.node, [kind |-> "dir", mode |-> Masked(perm), data |-> <<>>]),
            err |-> OK]
    ELSE [fs |-> F, err |-> EACCES]
  ELSE [fs |-> F, err |-> r.err]

\* os.MkdirAll(p, perm): stat fast path, else the parent first (the path
\* without its last element), then Mkdir, whose failure is forgiven when the
\* directory exists after all.
RECURSIVE MkdirAll(_, _, _, _)
MkdirAll(F, c, p, perm) ==
  Bind(Stat(F, c, p), LAMBDA st :
    IF st.err = OK THEN [fs |-> F, err |-> IF st.isDir THEN OK ELSE ENOTDIR]
    ELSE
      LET i == IF \E k \in 1..Len(p) : p[k] # Slash
                 THEN CHOOSE k \in 1..Len(p) :
                        p[k] # Slash /\ \A m \in (k+1)..Len(p) : p[m] = Slash
               ELSE 0
          j == LastSlash(SubSeq(p, 1, i))
      IN Bind(IF j > 1 THEN MkdirAll(F, c, SubSeq(p, 1, j - 1), perm)
              ELSE [fs |-> F, err |-> OK],
              LAMBDA up :
                IF up.err # OK THEN up
                ELSE Bind(Mkdir(up.fs, c, p, perm), LAMBDA mk :
                       IF mk.err = OK THEN mk
                       ELSE IF Stat(mk.fs, c, p).isDir THEN [fs |-> mk.fs, err |-> OK]
                       ELSE mk)))

\* os.OpenFile(p, O_CREATE|O_TRUNC|(O_WRONLY or O_RDWR), perm): the node
\* opened, emptied or created empty.
OpenTrunc(F, c, p, perm, reading) ==
  LET r == Lookup(F, c, p) IN
  IF r.err = OK THEN
    IF F[r.node].kind = "dir" THEN [fs |-> F, err |-> EISDIR, node |-> r.node]
    ELSE IF ~UserW(F[r.node].mode) \/ (reading /\ ~UserR(F[r.node].mode))
      THEN [fs |-> F, err |-> EACCES, node |-> r.node]
    ELSE [fs |-> Put(F, r.node, [F[r.node] EXCEPT !.data = <<>>]), err |-> OK, node |-> r.node]
  ELSE IF r.err = ENOENT /\ r.rest = <<>> THEN
    IF UserW(F[Parent(r.node)].mode)
      THEN [fs |-> Put(F, r.node, [kind |-> "file", mode |-> Masked(perm), data |-> <<>>]),
            err |-> OK, node |-> r.node]
    ELSE [fs |-> F, err |-> EACCES, node |-> r.node]
  ELSE [fs |-> F, err |-> r.err, node |-> r.node]

\* ioutil.WriteFile(p, data, perm): open write-only with create and truncate,
\* write data, close.
IoWriteFile(F, c, p, data, perm) ==
  Bind(OpenTrunc(F, c, p, perm, FALSE), LAMBDA o :
    IF o.err # OK THEN [fs |-> o.fs, err |-> o.err]
    ELSE [fs |-> Put(o.fs, o.node, [o.fs[o.node] EXCEPT !.data = data]), err |-> OK])

\* os.Create(p): open read-write with create and truncate, mode 0666.
Create(F, c, p) == OpenTrunc(F, c, p, 438, TRUE)

\* os.Open(p): read-only open of an existing node (a directory opens too).
Open(F, c, p) ==
  LET r == Lookup(F, c, p) IN
  IF r.err # OK THEN [err |-> r.err, node |-> r.node]
  ELSE IF ~UserR(F[r.node].mode) THEN [err |-> EACCES, node |-> r.node]
  ELSE [err |-> OK, node |-> r.node]

\* Removal of node n with everything below it; the caller has checked
\* the parent.  A non-empty directory must be readable, writable and
\* searchable; what can be removed is removed, the first error is kept.
RECURSIVE RemoveNode(_, _)
RemoveNode(F, n) ==
  LET without(G) == [q \in DOMAIN G \ {n} |-> G[q]]
      names == SortNames({q[Len(q)] : q \in Children(F, n)})
      RECURSIVE Each(_, _)
      Each(i, acc) ==
        IF i > Len(names) THEN acc
        ELSE Bind(RemoveNode(acc.fs, Append(n, names[i])), LAMBDA r :
               Bind([fs |-> r.fs, err |-> IF acc.err = OK THEN r.err ELSE acc.err],
                    LAMBDA next : Each(i + 1, next)))
  IN IF F[n].kind # "dir" \/ names = <<>> THEN [fs |-> without(F), err |-> OK]
     ELSE IF ~(UserR(F[n].mode) /\ UserW(F[n].mode) /\ UserX(F[n].mode))
       THEN [fs |-> F, err |-> EACCES]
     ELSE Bind(Each(1, [fs |-> F, err |-> OK]), LAMBDA r :
            IF r.err = OK THEN [fs |-> without(r.fs), err |-> OK] ELSE r)

\* os.RemoveAll(p): nil for "" and for a missing target, EINVAL for a path
\* ending in ".".
RemoveAll(F, c, p) ==
  IF p = <<>> THEN [fs |-> F, err |-> OK]
  ELSE IF p = <<Dot>> \/ (Len(p) >= 2 /\ SubSeq(p, Len(p) - 1, Len(p)) = <<Slash, Dot>>)
    THEN [fs |-> F, err |-> EINVAL]
  ELSE LET r == Lookup(F, c, p) IN
    IF r.err = ENOENT THEN [fs |-> F, err |-> OK]
    ELSE IF r.err # OK THEN [fs |-> F, err |-> r.err]
    ELSE IF ~UserW(F[Parent(r.node)].mode) THEN [fs |-> F, err |-> EACCES]
    ELSE RemoveNode(F, r.node)

\* os.Chdir(p)
Chdir(F, c, p) ==
  LET r == Lookup(F, c, p) IN
  IF r.err # OK THEN [cwd |-> c, err |-> r.err]
  ELSE IF F[r.node].kind # "dir" THEN [cwd |-> c, err |-> ENOTDIR]
  ELSE IF ~UserX(F[r.node].mode) THEN [cwd |-> c, err |-> EACCES]
  ELSE [cwd |-> r.node, err |-> OK]

\* os.Chmod(p, mode)
OsChmod(F, c, p, mode) ==
  LET r == Lookup(F, c, p) IN
  IF r.err # OK THEN [fs |-> F, err |-> r.err]
  ELSE [fs |-> Put(F, r.node, [F[r.node] EXCEPT !.mode = mode]), err |-> OK]

\* ------------------------------------------------------------------------
\* The library (src/fcmd.go)
\* ------------------------------------------------------------------------

\* func IsExist(target string) bool
IsExist(F, c, target) ==
  LET err == Stat(F, c, target).err
  IN IsNotExist(err)

\* IsHidden testing the end of the name instead of its start.
IsHiddenBySuffix(target) ==
  Len(target) > 0 /\ target[Len(target)] = Dot

\* func IsHidden(target string) bool
IsHidden(target) == HasPrefix(target, <<Dot>>)

\* Ls with the two branches on element.IsDir() exchanged.
LsSwapped(F, c, target) ==
  LET rd == ReadDir(F, c, target)
      shown == SelectSeq(rd.entries, LAMBDA e : ~HasPrefix(e.Name, <<Dot>>))
      asFiles == SelectSeq(shown, LAMBDA e : e.IsDir)
      asDirs == SelectSeq(shown, LAMBDA e : ~e.IsDir)
  IN [dirs |-> [i \in 1..Len(asDirs) |-> asDirs[i].Name],
      files |-> [i \in 1..Len(asFiles) |-> asFiles[i].Name]]

\* func Ls(target string) (dirs, files []string)
Ls(F, c, target) ==
  LET rd == ReadDir(F, c, target)
      directory == rd.entries
      RECURSIVE Range(_, _, _)
      Range(i, dirs, files) ==
        IF i > Len(directory) THEN [dirs |-> dirs, files |-> files]
        ELSE LET element == directory[i] IN
          IF IsHidden(element.Name) THEN Range(i + 1, dirs, files)
          ELSE IF element.IsDir THEN Range(i + 1, Append(dirs, element.Name), files)
          ELSE Range(i + 1, dirs, Append(files, element.Name))
  IN IF rd.err # OK THEN [dirs |-> <<>>, files |-> <<>>]
     ELSE Range(1, <<>>, <<>>)

\* Explore with one slip, named by how:
\*   "flat"      the directories of the recursive call are not appended;
\*   "stop"      the loop ends at a subdirectory that yields nothing;
\*   "fileslast" the root's own files are appended after the loop.
RECURSIVE ExploreWith(_, _, _, _)
ExploreWith(F, c, root, how) ==
  LET l == ReadDir(F, c, root)
      shown == SelectSeq(l.entries, LAMBDA e : ~HasPrefix(e.Name, <<Dot>>))
      dirList == SelectSeq(shown, LAMBDA e : e.IsDir)
      plain == SelectSeq(shown, LAMBDA e : ~e.IsDir)
      fileList == [i \in 1..Len(plain) |-> plain[i].Name]
      RECURSIVE ForDirs(_, _)
      ForDirs(i, acc) ==
        IF i > Len(dirList) THEN acc
        ELSE LET subRoot == Join(<<root, dirList[i].Name>>)
                 sub == ExploreWith(F, c, subRoot, how)
                 next == [dirs |-> (acc.dirs \o <<subRoot>>)
                                     \o (IF how = "flat" THEN <<>> ELSE sub.dirs),
                          files |-> acc.files \o sub.files,
                          calls |-> acc.calls \o sub.calls]
             IN IF how = "stop" /\ sub.dirs = <<>> /\ sub.files = <<>> THEN next
                ELSE ForDirs(i + 1, next)
      own == IF how = "fileslast" THEN <<>> ELSE fileList
      done == ForDirs(1, [dirs |-> <<>>, files |-> own, calls |-> <<root>>])
  IN IF how = "fileslast" THEN [done EXCEPT !.files = done.files \o fileList]
     ELSE done

ExploreFlat(F, c, root) == ExploreWith(F, c, root, "flat")

ExploreStopsAtEmpty(F, c, root) == ExploreWith(F, c, root, "stop")

ExploreOwnFilesLast(F, c, root) == ExploreWith(F, c, root, "fileslast")

\* func Explore(root string) (dirs, files []string); calls records, in
\* order, every target Ls was called on.
RECURSIVE Explore(_, _, _)
Explore(F, c, root) ==
  Bind(Ls(F, c, root), LAMBDA l :
    LET dirList == l.dirs
        fileList == l.files
        RECURSIVE ForDirs(_, _)
        ForDirs(i, acc) ==
          IF i > Len(dirList) THEN acc
          ELSE LET dir == dirList[i] IN
            Bind(Join(<<root, dir>>), LAMBDA subRoot :
              Bind(Explore(F, c, subRoot), LAMBDA sub :
                Bind([dirs |-> (acc.dirs \o <<subRoot>>) \o sub.dirs,
                      files |-> acc.files \o sub.files,
                      calls |-> acc.calls \o sub.calls],
                     LAMBDA next : ForDirs(i + 1, next))))
    IN ForDirs(1, [dirs |-> <<>>, files |-> fileList, calls |-> <<root>>]))

\* func Cp(source, target string) error
Cp(F, c, source, target) ==
  Bind(Open(F, c, source), LAMBDA sourceFile :
    IF sourceFile.err # OK THEN [fs |-> F, err |-> sourceFile.err]
    ELSE
      Bind(MkdirAll(F, c, Split(target).dir, DefaultPerm), LAMBDA mk :
        IF mk.err # OK THEN [fs |-> mk.fs, err |-> mk.err]
        ELSE
          Bind(Create(mk.fs, c, target), LAMBDA targetFile :
            IF targetFile.err # OK THEN [fs |-> targetFile.fs, err |-> targetFile.err]
            \* io.Copy: reading a directory fails; the bytes read are the
            \* source's as they are after the target was truncated.
            ELSE IF targetFile.fs[sourceFile.node].kind = "dir"
              THEN [fs |-> targetFile.fs, err |-> EISDIR]
            ELSE [fs |-> Put(targetFile.fs, targetFile.node,
                             [targetFile.fs[targetFile.node]
                                EXCEPT !.data = targetFile.fs[sourceFile.node].data]),
                  err |-> OK])))

\* func WriteFile(target string, data []byte) error
WriteFile(F, c, target, data) ==
  Bind(MkdirAll(F, c, Split(target).dir, DefaultPerm), LAMBDA mk :
    IF mk.err # OK THEN [fs |-> mk.fs, err |-> mk.err]
    ELSE IoWriteFile(mk.fs, c, target, data, DefaultPerm))

\* func Rm(target string) error
Rm(F, c, target) == RemoveAll(F, c, target)

\* func Cd(target string) error
Cd(F, c, target) == Chdir(F, c, target)

\* func Chmod(target string, mode os.FileMode) error
Chmod(F, c, target, mode) == OsChmod(F, c, target, mode)

\* ------------------------------------------------------------------------
\* The calls a program makes
\* ------------------------------------------------------------------------

\* Names: "a" and "b" name directories or files, "f" files; ".a" and ".f"
\* are hidden.  Relative paths only, so that the working directory matters;
\* none of them lets Rm or Chmod act on the working directory or on a
\* directory above it, so the working directory always exists and can be
\* searched.
TargetPaths ==
  { <<"f">>,
    <<"a", "/", "f">>,
    <<"a", "/", "b", "/", "f">>,
    <<"b", "/", "a">>,
    <<".", "a", "/", "f">>,
    <<"a", "/", ".", "f">> }

DirPaths ==
  { <<".">>,
    <<".", ".">>,
    <<"a">>,
    <<".", "/", "a", "/">>,
    <<".", "a">>,
    <<"a", "/", "f">> }

StatPaths == { <<"a">>, <<"a", "/", "f">>, <<"b", "/", "a">> }

SourcePaths == { <<"a", "/", "f">>, <<"a">> }

CopyPaths == { <<"f">>, <<"b", "/", "a">> }

RmPaths == { <<"b", "/", "a">>, <<"a">> }

CdPaths == { <<"a">>, <<".", ".">> }

ChmodPaths == { <<"a">> }

\* The contents written: the target a/f is written with either, so that one
\* replaces the other.
Contents(target) ==
  IF target = <<"a", "/", "f">> THEN { <<1>>, <<2, 2>> } ELSE { <<1>> }

Modes == { 0, DefaultPerm }

NoCall ==
  [op |-> "none", a1 |-> <<>>, a2 |-> <<>>, data |-> <<>>, mode |-> 0,
   dirs |-> <<>>, files |-> <<>>, calls |-> <<>>, ok |-> FALSE, err |-> OK]

Within(F) == Cardinality(DOMAIN F) <= MaxNodes + 1

Init ==
  /\ fs = [n \in {<<>>} |-> [kind |-> "dir", mode |-> DefaultPerm, data |-> <<>>]]
  /\ cwd = <<>>
  /\ last = NoCall

CallIsExist ==
  \E target \in StatPaths :
    /\ last' = [NoCall EXCEPT !.op = "IsExist", !.a1 = target,
                              !.ok = IsExist(fs, cwd, target)]
    /\ UNCHANGED <<fs, cwd>>

CallLs ==
  \E target \in DirPaths :
    LET r == Ls(fs, cwd, target) IN
    /\ last' = [NoCall EXCEPT !.op = "Ls", !.a1 = target,
                              !.dirs = r.dirs, !.files = r.files]
    /\ UNCHANGED <<fs, cwd>>

\* Explore walking the tree by changing the working directory to root.
CallExploreByChdir ==
  \E root \in DirPaths :
    LET r == Explore(fs, cwd, root) IN
    /\ last' = [NoCall EXCEPT !.op = "Explore", !.a1 = root,
                              !.dirs = r.dirs, !.files = r.files, !.calls = r.calls]
    /\ cwd' = Chdir(fs, cwd, root).cwd
    /\ UNCHANGED fs

CallExplore ==
  \E root \in DirPaths :
    LET r == Explore(fs, cwd, root) IN
    /\ last' = [NoCall EXCEPT !.op = "Explore", !.a1 = root,
                              !.dirs = r.dirs, !.files = r.files, !.calls = r.calls]
    /\ UNCHANGED <<fs, cwd>>

CallWriteFile ==
  \E target \in TargetPaths :
   \E data \in Contents(target) :
    LET r == WriteFile(fs, cwd, target, data) IN
    /\ Within(r.fs)
    /\ fs' = r.fs
    /\ last' = [NoCall EXCEPT !.op = "WriteFile", !.a1 = target, !.data = data, !.err = r.err]
    /\ UNCHANGED cwd

CallCp ==
  \E source \in SourcePaths, target \in CopyPaths :
    LET r == Cp(fs, cwd, source, target) IN
    /\ Within(r.fs)
    /\ fs' = r.fs
    /\ last' = [NoCall EXCEPT !.op = "Cp", !.a1 = source, !.a2 = target, !.err = r.err]
    /\ UNCHANGED cwd

CallRm ==
  \E target \in RmPaths :
    LET r == Rm(fs, cwd, target) IN
    /\ fs' = r.fs
    /\ last' = [NoCall EXCEPT !.op = "Rm", !.a1 = target, !.err = r.err]
    /\ UNCHANGED cwd

CallCd ==
  \E target \in CdPaths :
    LET r == Cd(fs, cwd, target) IN
    /\ cwd' = r.cwd
    /\ last' = [NoCall EXCEPT !.op = "Cd", !.a1 = target, !.err = r.err]
    /\ UNCHANGED fs

CallChmod ==
  \E target \in ChmodPaths, mode \in Modes :
    LET r == Chmod(fs, cwd, target, mode) IN
    /\ fs' = r.fs
    /\ last' = [NoCall EXCEPT !.op = "Chmod", !.a1 = target, !.mode = mode, !.err = r.err]
    /\ UNCHANGED cwd

Next ==
  \/ CallIsExist
  \/ CallLs
  \/ CallExplore
  \/ CallWriteFile
  \/ CallCp
  \/ CallRm
  \/ CallCd
  \/ CallChmod

Spec == Init /\ [][Next]_vars

\* ------------------------------------------------------------------------
\* What a tree holds, stated on the file system itself
\* ------------------------------------------------------------------------

SeqRange(s) == {s[i] : i \in 1..Len(s)}

NoDup(s) == \A i, j \in 1..Len(s) : i # j => s[i] # s[j]

Count(s, x) == Cardinality({i \in 1..Len(s) : s[i] = x})

HiddenName(nm) == Len(nm) > 0 /\ nm[1] = Dot

\* Node n is a directory whose entries can be read.
Listable(F, n) ==
  /\ n \in DOMAIN F
  /\ F[n].kind = "dir"
  /\ UserR(F[n].mode)
  /\ (Children(F, n) = {} \/ UserX(F[n].mode))

\* The names leading from node r down to node d.
Chain(r, d) == SubSeq(d, Len(r) + 1, Len(d))

\* The nodes of the given kind strictly below node r that are reached
\* through non-hidden names and listable directories only.
Below(F, r, kind) ==
  {d \in DOMAIN F :
     /\ Len(d) > Len(r)
     /\ IsPrefix(r, d)
     /\ F[d].kind = kind
     /\ \A k \in (Len(r) + 1)..Len(d) : ~HiddenName(d[k])
     /\ \A k \in Len(r)..(Len(d) - 1) : Listable(F, SubSeq(d, 1, k))}

\* The nodes strictly below r with a hidden name on the way.
UnderHidden(F, r) ==
  {d \in DOMAIN F :
     /\ Len(d) > Len(r)
     /\ IsPrefix(r, d)
     /\ \E k \in (Len(r) + 1)..Len(d) : HiddenName(d[k])}

\* join(root, d1, ..., dk, name) for the node d below the root's node r.
PathOf(root, r, d) == Join(<<root>> \o Chain(r, d))

Explored == last.op = "Explore"

Root == last.a1

RootAt == Lookup(fs, cwd, last.a1)

\* ------------------------------------------------------------------------
\* Claims
\* ------------------------------------------------------------------------

\* C1: every entry of the file list of Explore(root) is the file's name
\* joined with the path of its directory, join(root, d1, ..., dk, name), for
\* the files at every depth below root.
C1_FilesAreJoinedPaths ==
  (Explored /\ RootAt.err = OK) =>
    SeqRange(last.files) =
      {PathOf(Root, RootAt.node, d) : d \in Below(fs, RootAt.node, "file")}

\* C2: no path string occurs more than once in the result of Explore(root),
\* neither in the directory list nor in the file list.
C2_NoPathTwice ==
  Explored => NoDup(last.dirs) /\ NoDup(last.files)

\* C3: Explore(root) lists no entry whose base name starts with ".", never
\* calls Ls on a hidden directory, and nothing that lies under a hidden
\* directory below root is in either list.
C3_HiddenNeverListed ==
  Explored =>
    /\ \A i \in 1..Len(last.dirs) : ~HiddenName(Split(last.dirs[i]).file)
    /\ \A i \in 1..Len(last.files) : ~HiddenName(Split(last.files[i]).file)
    /\ \A i \in 2..Len(last.calls) :
         LET at == Lookup(fs, cwd, last.calls[i])
         IN at.err = OK => at.node \notin UnderHidden(fs, RootAt.node)
    /\ \A i \in 1..Len(last.dirs) :
         LET at == Lookup(fs, cwd, last.dirs[i])
         IN at.err = OK /\ at.node \notin UnderHidden(fs, RootAt.node)
    /\ \A nm \in SeqRange(last.files) :
         Count(last.files, nm) <=
           Cardinality({d \in DOMAIN fs \ UnderHidden(fs, RootAt.node) :
                          /\ Len(d) > Len(RootAt.node)
                          /\ IsPrefix(RootAt.node, d)
                          /\ fs[d].kind = "file"
                          /\ d[Len(d)] = nm})

\* A root with a hidden directory that holds a file, and a non-hidden
\* directory that holds a hidden file, was explored.
C3_Witness ==
  /\ Explored
  /\ RootAt.err = OK
  /\ \E d \in UnderHidden(fs, RootAt.node) :
       /\ fs[d].kind = "file"
       /\ HiddenName(d[Len(d) - 1])
       /\ ~HiddenName(d[Len(d)])
  /\ \E d \in UnderHidden(fs, RootAt.node) :
       /\ fs[d].kind = "file"
       /\ Len(d) = Len(RootAt.node) + 2
       /\ ~HiddenName(d[Len(d) - 1])
  /\ Len(last.dirs) > 0

\* C4: the directory list of Explore(root) holds exactly the paths
\* join(root, d1, ..., dk), k >= 1, of the directories reached from root
\* through non-hidden names, each once, and not root itself.
C4_DirsExactlyReachable ==
  Explored =>
    LET reached == IF RootAt.err = OK THEN Below(fs, RootAt.node, "dir") ELSE {}
        paths == {PathOf(Root, RootAt.node, d) : d \in reached}
    IN /\ SeqRange(last.dirs) = paths
       /\ Len(last.dirs) = Cardinality(reached)
       /\ NoDup(last.dirs)
       /\ Root \notin SeqRange(last.dirs)
       /\ Clean(Root) \notin SeqRange(last.dirs)

\* A root with a directory inside a directory and a sibling directory was
\* explored.
C4_Witness ==
  /\ Explored
  /\ RootAt.err = OK
  /\ Len(last.dirs) >= 3
  /\ \E d \in Below(fs, RootAt.node, "dir") : Len(d) = Len(RootAt.node) + 2

\* C5: for a readable directory Ls returns bare names; every entry that is
\* not hidden is in exactly one output, in dirs iff it is a directory; the
\* outputs are disjoint, keep the order of the directory read, and their
\* lengths add up to the number of entries that are not hidden.
C5_LsSplitsEntries ==
  LET rd == ReadDir(fs, cwd, last.a1)
      shown == SelectSeq(rd.entries, LAMBDA e : ~HiddenName(e.Name))
      subdirs == SelectSeq(shown, LAMBDA e : e.IsDir)
      plain == SelectSeq(shown, LAMBDA e : ~e.IsDir)
  IN (last.op = "Ls" /\ rd.err = OK) =>
       /\ last.dirs = [i \in 1..Len(subdirs) |-> subdirs[i].Name]
       /\ last.files = [i \in 1..Len(plain) |-> plain[i].Name]
       /\ SeqRange(last.dirs) \cap SeqRange(last.files) = {}
       /\ Len(last.dirs) + Len(last.files) = Len(shown)
       /\ \A nm \in SeqRange(last.dirs) \cup SeqRange(last.files) :
            \A i \in 1..Len(nm) : nm[i] # Slash
       /\ (shown = <<>> => last.dirs = <<>> /\ last.files = <<>>)

\* Ls was called on a directory holding a hidden entry, a directory and a
\* file.
C5_Witness ==
  LET rd == ReadDir(fs, cwd, last.a1)
  IN /\ last.op = "Ls"
     /\ rd.err = OK
     /\ \E i \in 1..Len(rd.entries) : HiddenName(rd.entries[i].Name)
     /\ Len(last.dirs) > 0
     /\ Len(last.files) > 0

\* C6: a failed directory read is never surfaced: Ls and Explore return two
\* empty sequences for a target that cannot be read, and a non-hidden
\* subdirectory that cannot be read is still in the directory list, has
\* nothing below it in the lists, and every other reachable directory and
\* file is listed all the same.
C6_ReadFailuresSwallowed ==
  LET unread == ReadDir(fs, cwd, last.a1).err # OK
      r == RootAt.node
      dirsBelow == Below(fs, r, "dir")
  IN /\ (last.op = "Ls" /\ unread) => (last.dirs = <<>> /\ last.files = <<>>)
     /\ (Explored /\ unread) => (last.dirs = <<>> /\ last.files = <<>>)
     /\ (Explored /\ ~unread) =>
          /\ \A d \in dirsBelow : PathOf(Root, r, d) \in SeqRange(last.dirs)
          /\ \A d \in dirsBelow :
               ~Listable(fs, d) =>
                 \A i \in 1..Len(last.dirs) :
                   ~HasPrefix(last.dirs[i], PathOf(Root, r, d) \o <<Slash>>)
          /\ Len(last.files) = Cardinality(Below(fs, r, "file"))

\* A readable root was explored that holds an unreadable directory with
\* something inside, followed by a sibling directory that holds a file.
C6_Witness ==
  /\ Explored
  /\ RootAt.err = OK
  /\ \E d, e \in Below(fs, RootAt.node, "dir") :
       /\ Parent(d) = RootAt.node
       /\ Parent(e) = RootAt.node
       /\ ~Listable(fs, d)
       /\ Children(fs, d) # {}
       /\ StrLess(d[Len(d)], e[Len(e)])
       /\ \E x \in Below(fs, RootAt.node, "file") : Parent(x) = e

\* C7: IsExist(target) is true when the target exists (stat succeeds) and
\* false when it does not exist (stat fails with a not-found error).
C7_IsExistTellsExistence ==
  last.op = "IsExist" =>
    LET err == Stat(fs, cwd, last.a1).err
    IN /\ (err = OK => last.ok)
       /\ (err = ENOENT => ~last.ok)

\* The nodes named by the successive prefixes of a relative path of plain
\* names, from the working directory c: <<c, c/x1, c/x1/x2, ...>>.
Steps(c, p) ==
  LET es == SplitSlash(p)
  IN [k \in 1..(Len(es) + 1) |-> c \o SubSeq(es, 1, k - 1)]

\* Every directory on the way to p exists or can be created.
ParentsCreatable(F, c, p) ==
  LET st == Steps(c, p)
      n == Len(st)
  IN \A k \in 1..(n - 1) :
       IF st[k] \in DOMAIN F
         THEN /\ F[st[k]].kind = "dir"
              /\ UserX(F[st[k]].mode)
              /\ (st[k + 1] \notin DOMAIN F /\ k + 1 < n) => UserW(F[st[k]].mode)
       ELSE TRUE

\* The file p exists and can be overwritten, or can be created.
FileWritable(F, c, p) ==
  LET st == Steps(c, p)
      n == Len(st)
  IN IF st[n] \in DOMAIN F
       THEN F[st[n]].kind = "file" /\ UserW(F[st[n]].mode) /\ UserR(F[st[n]].mode)
     ELSE st[n - 1] \in DOMAIN F => UserW(F[st[n - 1]].mode)

\* C8: for every target, a bare file name included, whose missing parent
\* directories can be created and whose file can be written, WriteFile and
\* Cp return nil and leave every parent directory existing and the target
\* with exactly the new content; when creating the parent directories fails
\* the error is returned and the target is neither created nor modified.
C8_WriteCreatesParents ==
  [][ LET isWrite == last'.op = "WriteFile"
          isCp == last'.op = "Cp"
          target == IF isWrite THEN last'.a1 ELSE last'.a2
          st == Steps(cwd, target)
          n == Len(st)
          src == Lookup(fs, cwd, last'.a1)
          srcOk == /\ src.err = OK
                   /\ fs[src.node].kind = "file"
                   /\ UserR(fs[src.node].mode)
                   /\ src.node # st[n]
          content == IF isWrite THEN last'.data ELSE fs[src.node].data
      IN ((isWrite \/ (isCp /\ srcOk)) =>
            /\ (ParentsCreatable(fs, cwd, target) /\ FileWritable(fs, cwd, target)) =>
                 /\ last'.err = OK
                 /\ \A k \in 1..(n - 1) : st[k] \in DOMAIN fs' /\ fs'[st[k]].kind = "dir"
                 /\ st[n] \in DOMAIN fs'
                 /\ fs'[st[n]].kind = "file"
                 /\ fs'[st[n]].data = content
            /\ ~ParentsCreatable(fs, cwd, target) =>
                 /\ last'.err # OK
                 /\ (st[n] \in DOMAIN fs') = (st[n] \in DOMAIN fs)
                 /\ (st[n] \in DOMAIN fs => fs'[st[n]] = fs[st[n]]))
    ]_vars

RECURSIVE PreBefore(_, _)
PreBefore(x, y) ==
  IF x = <<>> THEN y # <<>>
  ELSE IF y = <<>> THEN FALSE
  ELSE IF Head(x) = Head(y) THEN PreBefore(Tail(x), Tail(y))
  ELSE StrLess(Head(x), Head(y))

\* Traversal order of two files: by their directories when these differ (a
\* directory's own files before those of the directories inside it), by
\* their names otherwise.
FileBefore(x, y) ==
  IF Parent(x) = Parent(y) THEN StrLess(x[Len(x)], y[Len(y)])
  ELSE PreBefore(Parent(x), Parent(y))

\* The files in S in traversal order.
RECURSIVE InOrder(_)
InOrder(S) ==
  IF S = {} THEN <<>>
  ELSE LET m == CHOOSE x \in S : \A y \in S \ {x} : FileBefore(x, y)
       IN <<m>> \o InOrder(S \ {m})

\* C10: the output of Explore(root) is in traversal order: a directory
\* comes before its descendants, which follow it as one block, siblings in
\* the order Ls gave them; a directory's own files come before the files of
\* its subdirectories, and an earlier sibling subtree's files before a later
\* one's.
C10_TraversalOrder ==
  (Explored /\ RootAt.err = OK) =>
    LET at(i) == Lookup(fs, cwd, last.dirs[i]).node
        n == Len(last.dirs)
        expected == InOrder(Below(fs, RootAt.node, "file"))
    IN /\ \A i, j \in 1..n : i < j => PreBefore(at(i), at(j))
       /\ \A i \in 1..n :
            LET under == {j \in 1..n : j # i /\ IsPrefix(at(i), at(j))}
            IN under = (i + 1)..(i + Cardinality(under))
       /\ Len(last.files) = Len(expected)
       /\ \A i \in 1..Len(expected) : last.files[i] = expected[i][Len(expected[i])]

\* A root was explored whose files come out in traversal order and not in
\* name order, below a directory inside a directory.
C10_Witness ==
  /\ Explored
  /\ RootAt.err = OK
  /\ \E i, j \in 1..Len(last.dirs) :
       i < j /\ HasPrefix(last.dirs[j], last.dirs[i] \o <<Slash>>)
  /\ \E i, j \in 1..Len(last.files) : i < j /\ StrLess(last.files[j], last.files[i])

====
